---- MODULE Spec2Model ----
(***************************************************************************)
(* A model of the transcript harvester: the API key rotator               *)
(* (api_key_rotator.py), the short-form classifiers, the filename          *)
(* sanitizer and the channel / playlist / recent-uploads workflows.        *)
(* The program is sequential; pc is the position of its single thread.     *)
(***************************************************************************)
EXTENDS Integers, Sequences, FiniteSets, TLC

\* ------------------------------------------------------------------ bounds
\* pool sizes 1..MaxKeys are explored (the number of API_KEY_i slots of .env)
MaxKeys == 5
\* depth of nested execute_with_rotation frames at which the interpreter
\* raises RecursionError
RecursionLimit == 4

\* pool sizes 1..HarvestKeys are explored in the workflows
HarvestKeys == 2

\* --------------------------------------------------------- program constants
\* api_key_rotator.py:15
max_retries == 3

VARIABLES
    \* YouTubeAPIKeyRotator fields
    max_keys,            \* self.max_keys
    current_key_index,   \* self.current_key_index
    retry_count,         \* self.retry_count
    youtube,             \* self.youtube: the key index the client was built with
    \* control
    pc,                  \* position of the thread
    ret,                 \* where execute_with_rotation / rotate_key returns to
    rot_from,            \* who called rotate_key: "execute" or "client"
    request,             \* the request object handed to execute_with_rotation
    depth,               \* nested execute_with_rotation frames
    result,              \* how the last rotator call ended: "ok" or the error raised
    \* observations of the running execute_with_rotation / rotate_key call
    calls,               \* request.execute() invocations so far
    rotations,           \* rotate_key calls made by execute_with_rotation so far
    advances,            \* advances of current_key_index in the running rotate_key call
    outcomes,            \* outcome of each invocation, in order
    lastCall,            \* key used by the last invocation and the current key then
    atCall,              \* rotator fields and rotations just before the last invocation
    \* the workflows
    workflow,            \* "rotator" (a bare client), "channel", "playlist" or "lastweek"
    OVERWRITE,           \* the OVERWRITE setting of yt-lastweek.py
    bad,                 \* id of the listed item whose snippet lacks "title", 0 if none
    files,               \* the output folder: file name -> content
    stats,               \* the downloaded / skipped / failed counters
    temp_videos,         \* ids listed so far (temp_videos; the response items in yt-lastweek)
    videos,              \* ids kept for download
    page,                \* number of the page the next listing request asks for
    pos,                 \* loop position: chunk start, item index or video index
    src,                 \* yt-lastweek: index of the playlist or channel being processed
    \* observations of the workflow
    lookups,             \* the videos.list lookups issued: first id position, size, ids, result
    passed,              \* ids handed to the transcript download
    listed,              \* ids of the items of every list a loop iterates
    processed,           \* ids whose loop body was entered
    last,                \* the last item taken to the persistence step, and whether a
                         \* transcript was requested for it
    exhausted,           \* an execute_with_rotation call of this channel or playlist
                         \* ended with the exhaustion error
    \* the classifier and the sanitizer called on their own
    video_data,          \* the argument of is_short
    title,               \* the argument of sanitize (a video title)
    returned             \* what the call returned, "none" before it

rvars == <<max_keys, current_key_index, retry_count, youtube>>
cvars == <<pc, ret, rot_from, request, depth, result>>
ovars == <<calls, rotations, advances, outcomes, lastCall, atCall>>
fvars == <<video_data, title, returned>>
wvars == <<fvars, workflow, OVERWRITE, bad, files, stats, temp_videos, videos, page, pos, src>>
gvars == <<lookups, passed, listed, processed, last, exhausted>>
hvars == <<wvars, gvars>>
vars == <<rvars, cvars, ovars, hvars>>

\* --------------------------------------------------------------- the rotator
\* What request.execute() can do: return, or raise an HttpError whose message
\* mentions the quota, another HttpError, or an exception that is no HttpError.
Outcomes == {"ok", "HttpQuota", "HttpOther", "Exception"}

IsHttpError(o) == o \in {"HttpQuota", "HttpOther"}

MentionsQuota_any(o) == TRUE
\* "quota" in str(e).lower()
MentionsQuota(o) == o = "HttpQuota"

\* next index in cyclic order, keys are numbered 1..n
NextKeyIndex_nowrap(i, n) == i + 1
NextKeyIndex_skip(i, n) == ((i + 1) % n) + 1
NextKeyIndex(i, n) == (i % n) + 1

\* the test rotate_key starts with
Exhausted_late(rc) == rc > max_retries
Exhausted(rc) == rc >= max_retries

\* retry_count when rotate_key raises the exhaustion error
RetryOnExhaustion_keep(rc) == rc
RetryOnExhaustion(rc) == 0

\* the frames of execute_with_rotation after its recursive call
NextDepth_same(d) == d
NextDepth(d) == d + 1

\* retry_count after a successful _initialize_service inside rotate_key
RetryAfterInit_keep(rc) == rc
RetryAfterInit(rc) == 0

\* the request a caller builds from self.api_rotator.service: it is bound to
\* the client, hence to the key the client was built with
BuildRequest == [key |-> youtube]

NoCall == [key |-> 0, cur |-> 0]
NoLast == [id |-> 0, dest |-> <<>>, existed |-> FALSE, fetched |-> FALSE, stats |-> <<>>,
           content |-> 0]
NoSnap == [idx |-> 0, rc |-> 0, yt |-> 0, rot |-> 0]

\* a rotator call ends and control goes back to the caller
Return(r) ==
    /\ pc' = ret
    /\ result' = r

\* entry of execute_with_rotation(request), called with return label r
StartExecute(r) ==
    /\ pc' = "exec"
    /\ ret' = r
    /\ request' = BuildRequest
    /\ depth' = 1
    /\ result' = "none"
    /\ rot_from' = "execute"
    /\ calls' = 0
    /\ rotations' = 0
    /\ advances' = 0
    /\ outcomes' = <<>>
    /\ lastCall' = NoCall
    /\ atCall' = NoSnap

\* execute_with_rotation: request.execute() and the except clause
request_execute ==
    /\ pc = "exec"
    /\ \E o \in Outcomes :
        /\ calls' = calls + 1
        /\ outcomes' = Append(outcomes, o)
        /\ lastCall' = [key |-> request.key, cur |-> current_key_index]
        /\ atCall' = [idx |-> current_key_index, rc |-> retry_count,
                      yt |-> youtube, rot |-> rotations]
        /\ IF o = "ok"
             THEN Return("ok") /\ UNCHANGED <<rotations, advances>>
             ELSE IF IsHttpError(o) /\ MentionsQuota(o)
                    THEN /\ pc' = "rotate"
                         /\ rotations' = rotations + 1
                         /\ advances' = 0
                         /\ UNCHANGED result
                    ELSE Return(o) /\ UNCHANGED <<rotations, advances>>
    /\ UNCHANGED <<rvars, ret, rot_from, request, depth>>
    /\ UNCHANGED hvars

\* rotate_key up to the try: the exhaustion test, the advance, the increment
rotate_key ==
    /\ pc = "rotate"
    /\ IF Exhausted(retry_count)
         THEN /\ retry_count' = RetryOnExhaustion(retry_count)
              /\ Return("ValueError")
              /\ UNCHANGED <<current_key_index, advances>>
         ELSE /\ current_key_index' = NextKeyIndex(current_key_index, max_keys)
              /\ retry_count' = retry_count + 1
              /\ advances' = advances + 1
              /\ pc' = "init"
              /\ UNCHANGED result
    /\ UNCHANGED <<max_keys, youtube, ret, rot_from, request, depth>>
    /\ UNCHANGED <<calls, rotations, outcomes, lastCall, atCall>>
    /\ UNCHANGED hvars

\* rotate_key's try block: _initialize_service succeeds or raises; on success
\* rotate_key returns, to execute_with_rotation's recursive call or to the client
initialize_service ==
    /\ pc = "init"
    /\ \E ok \in BOOLEAN :
        IF ok
          THEN /\ youtube' = current_key_index
               /\ retry_count' = RetryAfterInit(retry_count)
               /\ IF rot_from = "execute"
                    THEN IF depth >= RecursionLimit
                           THEN Return("RecursionError") /\ UNCHANGED depth
                           ELSE /\ pc' = "exec"
                                /\ depth' = NextDepth(depth)
                                /\ UNCHANGED result
                    ELSE Return("ok") /\ UNCHANGED depth
          ELSE /\ pc' = "rotate"
               /\ UNCHANGED <<youtube, retry_count, depth, result>>
    /\ UNCHANGED <<max_keys, current_key_index, ret, rot_from, request>>
    /\ UNCHANGED ovars
    /\ UNCHANGED hvars

\* ------------------------------------------------------------------ strings
\* A string is a sequence of one-character strings.
Digits == <<"0", "1", "2", "3", "4", "5", "6", "7", "8", "9">>

IsDigit(c) == \E k \in 1..Len(Digits) : Digits[k] = c

DigitValue(c) == (CHOOSE k \in 1..Len(Digits) : Digits[k] = c) - 1

\* str.lower(), on the letters the model's strings use
LowerChar(c) ==
    CASE c = "S" -> "s"
      [] c = "H" -> "h"
      [] c = "O" -> "o"
      [] c = "R" -> "r"
      [] c = "T" -> "t"
      [] c = "A" -> "a"
      [] OTHER -> c

Lower(s) == [k \in 1..Len(s) |-> LowerChar(s[k])]

\* t in s
Contains(s, t) ==
    \E k \in 1..(Len(s) - Len(t) + 1) : SubSeq(s, k, k + Len(t) - 1) = t

\* s[from:] in Python terms, from being a 1-based position
Tail_from(s, from) == SubSeq(s, from, Len(s))

\* ------------------------------------------------------- FilenameSanitizer
\* sanitize_filename.py:24
MaxFilenameLen == 255

\* the named character references the model's strings use, with and without
\* the closing semicolon as in html.entities.html5
Html5 == [name \in {<<"l", "t">>, <<"l", "t", ";">>, <<"g", "t">>, <<"g", "t", ";">>,
                    <<"a", "m", "p">>, <<"a", "m", "p", ";">>,
                    <<"q", "u", "o", "t">>, <<"q", "u", "o", "t", ";">>} |->
            IF name[1] = "l" THEN "<"
            ELSE IF name[1] = "g" THEN ">"
            ELSE IF name[1] = "a" THEN "&"
            ELSE "\""]

\* characters that end the name of a character reference: [^\t\n\f <&#;]
EndsReference(c) == c \in {" ", "<", "&", "#", ";"}

\* end (exclusive) of the run [^\t\n\f <&#;]{1,32} that starts at position p
RECURSIVE ReferenceEnd(_, _, _)
ReferenceEnd(s, p, n) ==
    IF p > Len(s) \/ n = 32 \/ EndsReference(s[p]) THEN p
    ELSE ReferenceEnd(s, p + 1, n + 1)

\* html._replace_charref: the longest prefix of ref, of length len(ref)-1 down
\* to 2, that names a character; 0 when there is none
RECURSIVE LongestPrefix(_, _)
LongestPrefix(ref, x) ==
    IF x < 2 THEN 0
    ELSE IF SubSeq(ref, 1, x) \in DOMAIN Html5 THEN x
    ELSE LongestPrefix(ref, x - 1)

\* html.unescape on named character references: the text before the first
\* "&" is kept, the reference that starts there is replaced, and the rest is
\* unescaped in turn
RECURSIVE Unescape(_)
Unescape(text) ==
    IF \A k \in 1..Len(text) : text[k] # "&" THEN text
    ELSE LET a == CHOOSE k \in 1..Len(text) :
                      text[k] = "&" /\ \A j \in 1..(k - 1) : text[j] # "&"
             s == Tail_from(text, a)
             e == ReferenceEnd(s, 2, 0)
             e2 == IF e <= Len(s) /\ s[e] = ";" THEN e + 1 ELSE e
             ref == SubSeq(s, 2, e2 - 1)
             x == LongestPrefix(ref, Len(ref) - 1)
         IN  SubSeq(text, 1, a - 1) \o
             (IF e = 2 THEN <<"&">> \o Unescape(Tail(s))
              ELSE IF ref \in DOMAIN Html5
                     THEN <<Html5[ref]>> \o Unescape(Tail_from(s, e2))
              ELSE IF x > 0
                     THEN <<Html5[SubSeq(ref, 1, x)]>> \o Tail_from(ref, x + 1)
                              \o Unescape(Tail_from(s, e2))
              ELSE <<"&">> \o ref \o Unescape(Tail_from(s, e2)))

\* the characters re.sub(r'[<>:"/\\|?*]', '-', ...) replaces
Invalid == {"<", ">", ":", "\"", "/", "\\", "|", "?", "*"}

ReplaceInvalid(s) == [k \in 1..Len(s) |-> IF s[k] \in Invalid THEN "-" ELSE s[k]]

\* str.strip('. ')
RECURSIVE LStrip(_)
LStrip(s) == IF s # <<>> /\ s[1] \in {".", " "} THEN LStrip(Tail(s)) ELSE s

RECURSIVE RStrip(_)
RStrip(s) ==
    IF s # <<>> /\ s[Len(s)] \in {".", " "} THEN RStrip(SubSeq(s, 1, Len(s) - 1)) ELSE s

Strip(s) == RStrip(LStrip(s))

Truncate(s) == IF Len(s) > MaxFilenameLen THEN SubSeq(s, 1, MaxFilenameLen) ELSE s

sanitize(filename) == Truncate(Strip(ReplaceInvalid(Unescape(filename))))

\* ----------------------------------------------------- YouTubeShortsFilter
\* end (exclusive) of the run of digits that starts at position p
RECURSIVE DigitsEnd(_, _)
DigitsEnd(s, p) == IF p <= Len(s) /\ IsDigit(s[p]) THEN DigitsEnd(s, p + 1) ELSE p

\* int() of a run of digits
RECURSIVE ToInt(_)
ToInt(ds) ==
    IF ds = <<>> THEN 0
    ELSE 10 * ToInt(SubSeq(ds, 1, Len(ds) - 1)) + DigitValue(ds[Len(ds)])

\* one optional group (?:(\d+)X)? tried at position p: the value captured and
\* the position after it, or no capture and the same position
Group(s, p, unit) ==
    LET q == DigitsEnd(s, p)
    IN  IF q > p /\ q <= Len(s) /\ s[q] = unit
          THEN [value |-> ToInt(SubSeq(s, p, q - 1)), next |-> q + 1]
          ELSE [value |-> 0, next |-> p]

\* positions where the literal PT starts
PTAt(s) == {k \in 1..(Len(s) - 1) : s[k] = "P" /\ s[k + 1] = "T"}

\* re.findall(r'PT(?:(\d+)H)?(?:(\d+)M)?(?:(\d+)S)?', duration)[0] turned into
\* seconds; -1 stands for the IndexError of [0] when nothing matches
DurationSec(duration) ==
    IF PTAt(duration) = {} THEN -1
    ELSE LET k == CHOOSE m \in PTAt(duration) : \A n \in PTAt(duration) : m <= n
             h == Group(duration, k + 2, "H")
             m == Group(duration, h.next, "M")
             sec == Group(duration, m.next, "S")
         IN  h.value * 3600 + m.value * 60 + sec.value

\* aspect_ratio > 1 for thumbnail [height, width]; a width of 0 gives ratio 0
IsVertical(thumb) == thumb.width > 0 /\ thumb.height > thumb.width

NoThumb == [height |-> 0, width |-> 0]

ShortsTags == {<<"#", "s", "h", "o", "r", "t", "s">>, <<"#", "s", "h", "o", "r", "t">>,
               <<"#", "y", "o", "u", "t", "u", "b", "e", "s", "h", "o", "r", "t", "s">>}

ShortMaxSec == 60

\* the duration rule of is_short
DurationRule_strict(sec) == sec < ShortMaxSec
DurationRule(sec) == sec <= ShortMaxSec

\* YouTubeShortsFilter.is_short on a videos.list item; the except clause
\* answers False
is_short(v) ==
    IF DurationSec(v.duration) < 0 THEN FALSE
    ELSE \/ DurationRule(DurationSec(v.duration))
         \/ (v.standard # NoThumb /\ IsVertical(v.standard))
         \/ \E tag \in ShortsTags :
                Contains(Lower(v.description), tag) \/ Contains(Lower(v.title), tag)
         \/ Contains(v.url, <<"/", "s", "h", "o", "r", "t", "s", "/">>)

\* ------------------------------------------------ a client of the rotator
\* the client calls execute_with_rotation with a request it has just built
CallExecute ==
    /\ pc = "idle"
    /\ StartExecute("idle")
    /\ UNCHANGED rvars
    /\ UNCHANGED hvars

\* the client calls rotate_key itself
CallRotateKey ==
    /\ pc = "idle"
    /\ pc' = "rotate"
    /\ ret' = "idle"
    /\ rot_from' = "client"
    /\ result' = "none"
    /\ depth' = 0
    /\ calls' = 0
    /\ rotations' = 0
    /\ advances' = 0
    /\ outcomes' = <<>>
    /\ lastCall' = NoCall
    /\ atCall' = NoSnap
    /\ UNCHANGED <<rvars, request>>
    /\ UNCHANGED hvars

\* __init__: the state after a construction that succeeded
InitRotator ==
    /\ max_keys \in 1..MaxKeys
    /\ current_key_index = 1
    /\ retry_count = 0
    /\ youtube = 1

\* no call of the rotator has been made yet
InitCalls ==
    /\ ret = "idle"
    /\ rot_from = "client"
    /\ request = [key |-> 0]
    /\ depth = 0
    /\ result = "none"
    /\ calls = 0
    /\ rotations = 0
    /\ advances = 0
    /\ outcomes = <<>>
    /\ lastCall = NoCall
    /\ atCall = NoSnap

\* no workflow has run yet
InitRun ==
    /\ stats = [downloaded |-> 0, skipped |-> 0, failed |-> 0]
    /\ temp_videos = <<>>
    /\ videos = <<>>
    /\ page = 1
    /\ pos = 0
    /\ src = 1
    /\ lookups = <<>>
    /\ passed = {}
    /\ listed = {}
    /\ processed = {}
    /\ last = NoLast
    /\ exhausted = FALSE

\* neither the classifier nor the sanitizer is called on its own
InitFunctions ==
    /\ video_data = <<>>
    /\ title = <<>>
    /\ returned = "none"

Init ==
    /\ InitRotator
    /\ InitCalls
    /\ InitRun
    /\ InitFunctions
    /\ pc = "idle"
    /\ workflow = "rotator"
    /\ OVERWRITE = FALSE
    /\ bad = 0
    /\ files = <<>>

Next ==
    \/ CallExecute
    \/ CallRotateKey
    \/ request_execute
    \/ rotate_key
    \/ initialize_service

Spec == Init /\ [][Next]_vars

\* the program is sequential: a step of the running call that can be taken is
\* taken
Fairness ==
    /\ WF_vars(request_execute)
    /\ WF_vars(rotate_key)
    /\ WF_vars(initialize_service)

SpecLive == Init /\ [][Next]_vars /\ Fairness

\* ------------------------------------------------------ the remote catalogue
\* number of uploads of the channel that yt-channel.py harvests
NumVideos == 52

\* maxResults of the listing requests (yt-channel.py:88)
maxResults == 50

\* yt-channel.py:109
batch_size == 50

PT(rest) == <<"P", "T">> \o rest

\* most uploads are short clips
Clip == [title |-> <<"s">>, description |-> <<>>, duration |-> PT(<<"4", "5", "S">>),
         standard |-> NoThumb, maxres |-> NoThumb, url |-> <<>>,
         live |-> FALSE, available |-> TRUE, recent |-> TRUE, channel |-> <<"c">>]

\* the remote metadata of video id
Video(id) ==
    CASE id = 1 -> [Clip EXCEPT !.title = <<"a">>, !.duration = PT(<<"5", "M", "0", "S">>)]
      [] id = 2 -> [Clip EXCEPT !.title = <<"a", ".">>,
                                !.duration = PT(<<"1", "M", "1", "S">>)]
      [] id = 3 -> [Clip EXCEPT !.title = <<"b", ":">>, !.duration = PT(<<"1", "M">>)]
      [] id = 4 -> [Clip EXCEPT !.title = <<"&", "l", "t", ";", "c">>,
                                !.duration = <<"6", "1">>]
      [] id = 5 -> [Clip EXCEPT !.title = <<"#", "S", "h", "o", "r", "t", "s">>,
                                !.duration = PT(<<"1", "0", "M">>)]
      [] id = 6 -> [Clip EXCEPT !.title = <<"v">>, !.duration = PT(<<"5", "M">>),
                                !.standard = [height |-> 640, width |-> 480]]
      [] id = 7 -> [Clip EXCEPT !.title = <<"x">>, !.duration = PT(<<"5", "M">>),
                                !.available = FALSE]
      [] id = 8 -> [Clip EXCEPT !.title = <<"l">>, !.duration = PT(<<"0", "S">>),
                                !.live = TRUE]
      [] id = 9 -> [Clip EXCEPT !.title = <<"o">>, !.duration = PT(<<"5", "M">>),
                                !.recent = FALSE]
      [] id = 52 -> [Clip EXCEPT !.title = <<"d">>, !.duration = PT(<<"2", "M">>)]
      [] OTHER -> Clip

\* what the search of the channel lists, newest first
ChannelUploads == [k \in 1..NumVideos |-> k]

\* the items of the playlist yt-playlist.py harvests
PlaylistItems == <<1, 2, 3>>

\* yt-lastweek.py: the items of each playlist of playlists.yaml and the
\* uploads of the last 7 days of each channel of channels.txt
Playlists == << <<9, 2, 3>> >>
Channels == << <<4, 2, 3>> >>

\* item["snippet"]["title"] raises KeyError for the item that lacks the field
HasTitle(id) == id # bad

\* --------------------------------------------------------------- listings
Min(a, b) == IF a < b THEN a ELSE b

\* the items of page p of a listing and whether a nextPageToken comes with it
PageItems(list, p) == SubSeq(list, (p - 1) * maxResults + 1, Min(p * maxResults, Len(list)))

HasNextPage(list, p) == p * maxResults < Len(list)

\* position in items of the first item whose fields the loop body cannot read
\* (it raises KeyError there), 0 if the loop runs to the end; skipped holds
\* the items the body leaves before it reads the title
FirstBad(items, skipped) ==
    IF \E k \in 1..Len(items) : ~HasTitle(items[k]) /\ items[k] \notin skipped
      THEN CHOOSE k \in 1..Len(items) :
               /\ ~HasTitle(items[k]) /\ items[k] \notin skipped
               /\ \A j \in 1..(k - 1) : HasTitle(items[j]) \/ items[j] \in skipped
      ELSE 0

\* the items whose loop body was entered
Entered(items, skipped) ==
    IF FirstBad(items, skipped) = 0 THEN items ELSE SubSeq(items, 1, FirstBad(items, skipped))

\* the items whose loop body ran to its end
Completed(items, skipped) ==
    IF FirstBad(items, skipped) = 0 THEN items ELSE SubSeq(items, 1, FirstBad(items, skipped) - 1)

Range(seq) == {seq[k] : k \in 1..Len(seq)}

IsLive(id) == Video(id).live

\* yt-channel.py:95: the items left by "continue" before the title is read
LiveIds == {id \in 1..NumVideos : IsLive(id)}

\* yt-playlist.py:69-73: the loop body leaves no item early
NeverSkip == {}

\* yt-channel.py:94-99: what the for loop over a page appends to temp_videos
ChannelPage(items) == SelectSeq(Completed(items, LiveIds), LAMBDA id : ~IsLive(id))

\* yt-playlist.py:69-73
PlaylistPage(items) == Completed(items, NeverSkip)

\* ------------------------------------------------------ detail lookups
\* _get_video_details_batch: the ids of the response items, {} on any exception
get_video_details_batch_stale(res, ids) == {id \in Range(ids) : Video(id).available}
get_video_details_batch(res, ids) ==
    IF res = "ok" THEN {id \in Range(ids) : Video(id).available} ELSE {}

\* how a lookup ended, for the record of lookups: it returned, the request
\* raised an error that is not about the quota, or the rotation gave up
ResultClass(r) ==
    IF r = "ok" THEN "ok"
    ELSE IF r \in {"HttpOther", "Exception"} THEN "error"
    ELSE "gave_up"

\* yt-channel.py:116
Survives_unfiltered(id, video_details) == id \in video_details
Survives(id, video_details) == id \in video_details /\ ~is_short(Video(id))

\* isodate.parse_duration of a date-less duration, in seconds; -1 stands for
\* the error it raises on a string it cannot parse
IsoDurationSec(d) ==
    IF Len(d) > 2 /\ d[1] = "P" /\ d[2] = "T"
      THEN LET h == Group(d, 3, "H")
               m == Group(d, h.next, "M")
               sec == Group(d, m.next, "S")
           IN  IF sec.next = Len(d) + 1
                 THEN h.value * 3600 + m.value * 60 + sec.value
                 ELSE -1
      ELSE -1

\* yt-lastweek.py:52
LastweekShortSec == 60

\* the classification of is_short_video on the response item of video id
ShortVideo(id) ==
    \/ IsoDurationSec(Video(id).duration) < 0
    \/ IsoDurationSec(Video(id).duration) < LastweekShortSec
    \/ (Video(id).maxres # NoThumb /\ Video(id).maxres.height > Video(id).maxres.width)

\* is_short_video: a failed lookup and a lookup without items both answer True
is_short_video(res, id) ==
    IF res # "ok" THEN TRUE
    ELSE IF ~Video(id).available THEN TRUE
    ELSE ShortVideo(id)

\* ------------------------------------------------------------ persistence
Put(fs, name, content) ==
    [n \in DOMAIN fs \cup {name} |-> IF n = name THEN content ELSE fs[n]]

Txt == <<".", "t", "x", "t">>

\* content of a file that open() created and write() did not complete
Partial == -1

\* what the transcript service can answer to _download_transcript: a
\* transcript in it or en, none in these languages, TranscriptsDisabled or
\* NoTranscriptFound, another exception
TranscriptAnswers == {"found", "none", "disabled", "error"}

\* how open() and write() can end
WriteOutcomes == {"ok", "open_error", "write_error"}

\* destination of a transcript: yt-channel.py:141-142, yt-playlist.py:105-107,
\* yt-lastweek.py:168-170 and 252-254
Dest(wf, id) ==
    IF wf = "lastweek"
      THEN sanitize(Video(id).channel \o <<" ", "-", " ">> \o Video(id).title \o Txt)
      ELSE sanitize(Video(id).title) \o Txt

Bump(st, field) == [st EXCEPT ![field] = @ + 1]

\* open(filepath, "w") and f.write(text) and the counters
WriteFile(fs, st, dest, id, w) ==
    CASE w = "ok" -> [files |-> Put(fs, dest, id), stats |-> Bump(st, "downloaded")]
      [] w = "open_error" -> [files |-> fs, stats |-> Bump(st, "failed")]
      [] w = "write_error" -> [files |-> Put(fs, dest, Partial), stats |-> Bump(st, "failed")]

\* _download_transcript from the existence test on (yt-channel.py:144-154)
persist_overwrite(fs, st, dest, id, w) == WriteFile(fs, st, dest, id, w)
persist(fs, st, dest, id, w) ==
    IF dest \in DOMAIN fs
      THEN [files |-> fs, stats |-> Bump(st, "skipped")]
      ELSE WriteFile(fs, st, dest, id, w)

\* _download_transcript(video_id, video_title, folder_path) of yt-channel.py
\* and yt-playlist.py, for the video at position pos of videos
download_transcript(next) ==
    LET id == videos[pos]
        dest == Dest(workflow, id)
    IN  /\ \E t \in TranscriptAnswers, w \in WriteOutcomes :
            IF t = "found"
              THEN LET r == persist(files, stats, dest, id, w)
                   IN  /\ files' = r.files
                       /\ stats' = r.stats
                       /\ last' = [id |-> id, dest |-> dest, fetched |-> TRUE,
                                   existed |-> dest \in DOMAIN files, stats |-> stats,
                                   content |-> IF dest \in DOMAIN files
                                                 THEN files[dest] ELSE 0]
              ELSE /\ stats' = Bump(stats, "failed")
                   /\ last' = NoLast
                   /\ UNCHANGED files
        /\ passed' = passed \cup {id}
        /\ processed' = processed \cup {id}
        /\ pos' = pos + 1
        /\ pc' = next

\* the caller takes the result of execute_with_rotation; the frames of the
\* call, its request and the observations of the call end with it
TakeResult ==
    /\ exhausted' = (exhausted \/ result = "ValueError")
    /\ calls' = 0
    /\ rotations' = 0
    /\ advances' = 0
    /\ outcomes' = <<>>
    /\ lastCall' = NoCall
    /\ atCall' = NoSnap
    /\ request' = [key |-> 0]
    /\ depth' = 0
    /\ result' = "none"
    /\ UNCHANGED <<rvars, ret, rot_from>>

\* a step of the workflow that calls execute_with_rotation
Call(label) ==
    /\ StartExecute(label)
    /\ UNCHANGED rvars

\* ------------------------------------------------------------- yt-channel.py
\* download_channel_transcripts: _get_channel_info issues the search
ch_get_channel_info ==
    /\ pc = "ch_start"
    /\ Call("ch_info_ret")
    /\ UNCHANGED hvars

\* _get_channel_info returns (None, None) on any exception and when the
\* search has no item, and download_channel_transcripts returns then
ch_channel_info ==
    /\ pc = "ch_info_ret"
    /\ TakeResult
    /\ \E found \in BOOLEAN :
        pc' = IF result = "ok" /\ found THEN "ch_list" ELSE "done"
    /\ UNCHANGED <<wvars, lookups, passed, listed, processed, last>>

\* _get_channel_videos: the search request of one page
ch_list_page ==
    /\ pc = "ch_list"
    /\ Call("ch_list_ret")
    /\ UNCHANGED hvars

\* _get_channel_videos: the for loop over the page and the end of the while
\* loop, by the missing nextPageToken or by the except clause
ch_page ==
    /\ pc = "ch_list_ret"
    /\ TakeResult
    /\ LET items == PageItems(ChannelUploads, page)
       IN  IF result = "ok"
             THEN /\ temp_videos' = temp_videos \o ChannelPage(items)
                  /\ listed' = listed \cup Range(items)
                  /\ processed' = processed \cup Range(Entered(items, LiveIds))
                  /\ IF FirstBad(items, LiveIds) = 0 /\ HasNextPage(ChannelUploads, page)
                       THEN page' = page + 1 /\ pc' = "ch_list"
                       ELSE page' = page /\ pc' = "ch_batch"
             ELSE /\ pc' = "ch_batch"
                  /\ UNCHANGED <<temp_videos, listed, processed, page>>
    /\ pos' = 0
    /\ UNCHANGED <<fvars, workflow, OVERWRITE, bad, files, stats, videos, src>>
    /\ UNCHANGED <<lookups, passed, last>>

\* a chunk one id too long
Batch_long(i) == SubSeq(temp_videos, i + 1, Min(i + batch_size + 1, Len(temp_videos)))
\* the chunk of temp_videos that starts after position i
Batch(i) == SubSeq(temp_videos, i + 1, Min(i + batch_size, Len(temp_videos)))

\* _get_channel_videos: the next chunk's videos.list request, or the end of
\* the chunk loop and the test of the empty list in download_channel_transcripts
ch_batch ==
    /\ pc = "ch_batch"
    /\ IF pos < Len(temp_videos)
         THEN /\ Call("ch_batch_ret")
              /\ UNCHANGED hvars
         ELSE /\ pc' = IF videos = <<>> THEN "done" ELSE "ch_download"
              /\ pos' = 1
              /\ UNCHANGED <<rvars, ret, rot_from, request, depth, result, ovars>>
              /\ UNCHANGED <<fvars, workflow, OVERWRITE, bad, files, stats, temp_videos, videos,
                             page, src, gvars>>

\* _get_video_details_batch returns and the chunk's videos are filtered
ch_filter ==
    /\ pc = "ch_batch_ret"
    /\ TakeResult
    /\ LET batch == Batch(pos)
           video_details == get_video_details_batch(result, batch)
       IN  /\ videos' = videos \o SelectSeq(batch, LAMBDA id : Survives(id, video_details))
           /\ lookups' = Append(lookups, [first |-> pos + 1, size |-> Len(batch), ids |-> batch,
                                          result |-> ResultClass(result)])
           /\ listed' = listed \cup Range(batch)
           /\ processed' = processed \cup Range(batch)
    /\ pos' = pos + batch_size
    /\ pc' = "ch_batch"
    /\ UNCHANGED <<fvars, workflow, OVERWRITE, bad, files, stats, temp_videos, page, src>>
    /\ UNCHANGED <<passed, last>>

\* download_channel_transcripts: the for loop over videos
ch_download ==
    /\ pc = "ch_download"
    /\ IF pos <= Len(videos)
         THEN /\ download_transcript("ch_download")
              /\ listed' = listed \cup Range(videos)
         ELSE /\ pc' = "done"
              /\ UNCHANGED <<files, stats, pos, passed, listed, processed, last>>
    /\ UNCHANGED <<rvars, ret, rot_from, request, depth, result, ovars>>
    /\ UNCHANGED <<fvars, workflow, OVERWRITE, bad, temp_videos, videos, page, src>>
    /\ UNCHANGED <<lookups, exhausted>>


\* ------------------------------------------------------------ yt-playlist.py
\* download_playlist_transcripts: _get_playlist_info parses the URL and, when
\* it holds a list parameter, issues the playlists request
pl_get_playlist_info ==
    /\ pc = "pl_start"
    /\ \E has_list \in BOOLEAN :
        IF has_list
          THEN /\ Call("pl_info_ret")
               /\ UNCHANGED hvars
          ELSE /\ pc' = "done"
               /\ UNCHANGED <<rvars, ret, rot_from, request, depth, result, ovars, hvars>>

\* _get_playlist_info returns (None, None) on any exception and when the
\* response has no item, and download_playlist_transcripts returns then
pl_playlist_info ==
    /\ pc = "pl_info_ret"
    /\ TakeResult
    /\ \E found \in BOOLEAN :
        pc' = IF result = "ok" /\ found THEN "pl_list" ELSE "done"
    /\ UNCHANGED <<wvars, lookups, passed, listed, processed, last>>

\* _get_playlist_videos: the playlistItems request of one page
pl_list_page ==
    /\ pc = "pl_list"
    /\ Call("pl_list_ret")
    /\ UNCHANGED hvars

\* _get_playlist_videos: the for loop over the page, the end of the while loop
\* and the test of the empty list in download_playlist_transcripts
pl_page ==
    /\ pc = "pl_list_ret"
    /\ TakeResult
    /\ LET items == PageItems(PlaylistItems, page)
           more == result = "ok" /\ FirstBad(items, NeverSkip) = 0
                       /\ HasNextPage(PlaylistItems, page)
           got == IF result = "ok" THEN videos \o PlaylistPage(items) ELSE videos
       IN  /\ videos' = got
           /\ IF result = "ok"
                THEN /\ listed' = listed \cup Range(items)
                     /\ processed' = processed \cup Range(Entered(items, NeverSkip))
                ELSE UNCHANGED <<listed, processed>>
           /\ page' = IF more THEN page + 1 ELSE page
           /\ pc' = IF more THEN "pl_list"
                    ELSE IF got = <<>> THEN "done" ELSE "pl_download"
    /\ pos' = 1
    /\ UNCHANGED <<fvars, workflow, OVERWRITE, bad, files, stats, temp_videos, src>>
    /\ UNCHANGED <<lookups, passed, last>>

\* download_playlist_transcripts: the for loop over videos
pl_download ==
    /\ pc = "pl_download"
    /\ IF pos <= Len(videos)
         THEN /\ download_transcript("pl_download")
              /\ listed' = listed \cup Range(videos)
         ELSE /\ pc' = "done"
              /\ UNCHANGED <<files, stats, pos, passed, listed, processed, last>>
    /\ UNCHANGED <<rvars, ret, rot_from, request, depth, result, ovars>>
    /\ UNCHANGED <<fvars, workflow, OVERWRITE, bad, temp_videos, videos, page, src>>
    /\ UNCHANGED <<lookups, exhausted>>


\* ------------------------------------------------------------ yt-lastweek.py
\* what download_transcript(video_id) returns: the text, or None after an
\* exception
LastweekAnswers == {"text", "none"}

\* from the existence test to the counters (yt-lastweek.py:172-189 and
\* 256-274); skip_existing is True in process_playlist and not OVERWRITE in
\* main
lw_persist(fs, st, dest, id, skip_existing, t, w) ==
    IF dest \in DOMAIN fs /\ skip_existing
      THEN [files |-> fs, stats |-> Bump(st, "skipped")]
      ELSE IF t = "text"
             THEN WriteFile(fs, st, dest, id, w)
             ELSE [files |-> fs, stats |-> Bump(st, "failed")]

\* the item at position pos taken from the existence test to the counters
lw_item(id, skip_existing) ==
    LET dest == Dest(workflow, id)
    IN  /\ \E t \in LastweekAnswers, w \in WriteOutcomes :
            LET r == lw_persist(files, stats, dest, id, skip_existing, t, w)
            IN  /\ files' = r.files
                /\ stats' = r.stats
        /\ last' = [id |-> id, dest |-> dest, existed |-> dest \in DOMAIN files,
                    fetched |-> ~(dest \in DOMAIN files /\ skip_existing),
                    stats |-> stats,
                    content |-> IF dest \in DOMAIN files THEN files[dest] ELSE 0]
        /\ passed' = IF dest \in DOMAIN files /\ skip_existing
                       THEN passed ELSE passed \cup {id}

\* main: the loop over the playlists, process_playlist up to its playlistItems
\* request; after the last playlist the loop over the channels starts
lw_playlist ==
    /\ pc = "lw_pl"
    /\ IF src <= Len(Playlists)
         THEN /\ Call("lw_pl_ret")
              /\ exhausted' = FALSE
              /\ UNCHANGED <<wvars, lookups, passed, listed, processed, last>>
         ELSE /\ pc' = "lw_ch"
              /\ src' = 1
              /\ UNCHANGED <<rvars, ret, rot_from, request, depth, result, ovars>>
              /\ UNCHANGED <<fvars, workflow, OVERWRITE, bad, files, stats, temp_videos, videos,
                             page, pos, gvars>>

\* process_playlist: the response items, or the except clause
lw_playlist_items ==
    /\ pc = "lw_pl_ret"
    /\ TakeResult
    /\ IF result = "ok"
         THEN /\ temp_videos' = Playlists[src]
              /\ listed' = listed \cup Range(Playlists[src])
              /\ pos' = 1
              /\ pc' = "lw_pl_item"
              /\ UNCHANGED src
         ELSE /\ src' = src + 1
              /\ pc' = "lw_pl"
              /\ UNCHANGED <<temp_videos, listed, pos>>
    /\ UNCHANGED <<fvars, workflow, OVERWRITE, bad, files, stats, videos, page>>
    /\ UNCHANGED <<lookups, passed, processed, last>>

\* process_playlist: the next item: it is left when it is older than 7 days,
\* else is_short_video issues its videos request
lw_playlist_item ==
    /\ pc = "lw_pl_item"
    /\ IF pos <= Len(temp_videos) /\ Video(temp_videos[pos]).recent
         THEN /\ Call("lw_pl_short_ret")
              /\ UNCHANGED hvars
         ELSE /\ IF pos <= Len(temp_videos)
                   THEN /\ pos' = pos + 1
                        /\ processed' = processed \cup {temp_videos[pos]}
                        /\ UNCHANGED <<pc, src>>
                   ELSE /\ src' = src + 1
                        /\ pc' = "lw_pl"
                        /\ UNCHANGED <<pos, processed>>
              /\ UNCHANGED <<rvars, ret, rot_from, request, depth, result, ovars>>
              /\ UNCHANGED <<fvars, workflow, OVERWRITE, bad, files, stats, temp_videos, videos,
                             page>>
              /\ UNCHANGED <<lookups, passed, listed, last, exhausted>>

\* process_playlist: is_short_video answers; a short is left, the title of
\* the others is read (KeyError ends process_playlist) and the transcript is
\* skipped or downloaded
lw_playlist_short ==
    /\ pc = "lw_pl_short_ret"
    /\ TakeResult
    /\ LET id == temp_videos[pos]
       IN  /\ processed' = processed \cup {id}
           /\ IF is_short_video(result, id)
                THEN /\ pos' = pos + 1
                     /\ pc' = "lw_pl_item"
                     /\ UNCHANGED <<files, stats, last, passed, src>>
                ELSE IF ~HasTitle(id)
                       THEN /\ src' = src + 1
                            /\ pc' = "lw_pl"
                            /\ UNCHANGED <<files, stats, last, passed, pos>>
                       ELSE /\ lw_item(id, TRUE)
                            /\ pos' = pos + 1
                            /\ pc' = "lw_pl_item"
                            /\ UNCHANGED src
    /\ UNCHANGED <<fvars, workflow, OVERWRITE, bad, temp_videos, videos, page>>
    /\ UNCHANGED <<lookups, listed>>

\* main: the loop over the channels, get_channel_id up to its search request
lw_channel ==
    /\ pc = "lw_ch"
    /\ IF src <= Len(Channels)
         THEN /\ Call("lw_ch_id_ret")
              /\ exhausted' = FALSE
              /\ UNCHANGED <<wvars, lookups, passed, listed, processed, last>>
         ELSE /\ pc' = "done"
              /\ UNCHANGED <<rvars, ret, rot_from, request, depth, result, ovars, hvars>>

\* get_channel_id returns None on any exception; main goes to the next channel
\* then, else get_recent_videos starts
lw_channel_id ==
    /\ pc = "lw_ch_id_ret"
    /\ TakeResult
    /\ \E found \in BOOLEAN :
        IF result = "ok" /\ found
          THEN pc' = "lw_ch_search" /\ UNCHANGED src
          ELSE pc' = "lw_ch" /\ src' = src + 1
    /\ UNCHANGED <<fvars, workflow, OVERWRITE, bad, files, stats, temp_videos, videos, page, pos>>
    /\ UNCHANGED <<lookups, passed, listed, processed, last>>

\* get_recent_videos: the search request
lw_search ==
    /\ pc = "lw_ch_search"
    /\ Call("lw_ch_search_ret")
    /\ UNCHANGED hvars

\* get_recent_videos: the response items, or the except clause and main's
\* test of the empty list
lw_search_items ==
    /\ pc = "lw_ch_search_ret"
    /\ TakeResult
    /\ videos' = <<>>
    /\ IF result = "ok"
         THEN /\ temp_videos' = Channels[src]
              /\ listed' = listed \cup Range(Channels[src])
              /\ pos' = 1
              /\ pc' = "lw_ch_item"
              /\ UNCHANGED src
         ELSE /\ src' = src + 1
              /\ pc' = "lw_ch"
              /\ UNCHANGED <<temp_videos, listed, pos>>
    /\ UNCHANGED <<fvars, workflow, OVERWRITE, bad, files, stats, page>>
    /\ UNCHANGED <<lookups, passed, processed, last>>

\* get_recent_videos: is_short_video issues the videos request of the next
\* item; after the last item main tests the list and starts its loop
lw_recent_item ==
    /\ pc = "lw_ch_item"
    /\ IF pos <= Len(temp_videos)
         THEN /\ Call("lw_ch_short_ret")
              /\ UNCHANGED hvars
         ELSE /\ IF videos = <<>>
                   THEN src' = src + 1 /\ pc' = "lw_ch" /\ UNCHANGED <<pos, listed>>
                   ELSE /\ pos' = 1
                        /\ pc' = "lw_ch_download"
                        /\ listed' = listed \cup Range(videos)
                        /\ UNCHANGED src
              /\ UNCHANGED <<rvars, ret, rot_from, request, depth, result, ovars>>
              /\ UNCHANGED <<fvars, workflow, OVERWRITE, bad, files, stats, temp_videos, videos,
                             page>>
              /\ UNCHANGED <<lookups, passed, processed, last, exhausted>>

\* get_recent_videos: is_short_video answers; the others are appended, which
\* reads the title (KeyError ends get_recent_videos with the videos so far)
lw_recent_short ==
    /\ pc = "lw_ch_short_ret"
    /\ TakeResult
    /\ LET id == temp_videos[pos]
       IN  /\ processed' = processed \cup {id}
           /\ IF is_short_video(result, id)
                THEN /\ pos' = pos + 1
                     /\ UNCHANGED videos
                ELSE IF ~HasTitle(id)
                       THEN /\ pos' = Len(temp_videos) + 1
                            /\ UNCHANGED videos
                       ELSE /\ videos' = Append(videos, id)
                            /\ pos' = pos + 1
    /\ pc' = "lw_ch_item"
    /\ UNCHANGED <<fvars, workflow, OVERWRITE, bad, files, stats, temp_videos, page, src>>
    /\ UNCHANGED <<lookups, passed, listed, last>>

\* main: the for loop over the videos of the channel
lw_download ==
    /\ pc = "lw_ch_download"
    /\ IF pos <= Len(videos)
         THEN /\ lw_item(videos[pos], ~OVERWRITE)
              /\ processed' = processed \cup {videos[pos]}
              /\ pos' = pos + 1
              /\ UNCHANGED <<pc, src>>
         ELSE /\ src' = src + 1
              /\ pc' = "lw_ch"
              /\ UNCHANGED <<files, stats, last, passed, processed, pos>>
    /\ UNCHANGED <<rvars, ret, rot_from, request, depth, result, ovars>>
    /\ UNCHANGED <<fvars, workflow, OVERWRITE, bad, temp_videos, videos, page>>
    /\ UNCHANGED <<lookups, listed, exhausted>>


\* ------------------------------------------------------------ the three runs
\* the files left in the output folder by earlier runs: none, or the
\* transcript of one video of the run
InitFiles ==
    \E pre \in {{}, {IF workflow = "lastweek" THEN 3 ELSE 1}} :
        files = [n \in {Dest(workflow, id) : id \in pre} |-> 0]

\* the listed item that lacks its title, if any
BadIds == {0, 2}

InitHarvest ==
    /\ InitRotator
    /\ max_keys <= HarvestKeys
    /\ InitCalls
    /\ InitRun
    /\ InitFunctions
    /\ workflow \in {"channel", "playlist", "lastweek"}
    /\ pc = CASE workflow = "channel" -> "ch_start"
              [] workflow = "playlist" -> "pl_start"
              [] workflow = "lastweek" -> "lw_pl"
    /\ OVERWRITE \in (IF workflow = "lastweek" THEN BOOLEAN ELSE {FALSE})
    /\ bad \in BadIds
    /\ InitFiles

HarvestNext ==
    \/ request_execute
    \/ rotate_key
    \/ initialize_service
    \/ ch_get_channel_info
    \/ ch_channel_info
    \/ ch_list_page
    \/ ch_page
    \/ ch_batch
    \/ ch_filter
    \/ ch_download
    \/ pl_get_playlist_info
    \/ pl_playlist_info
    \/ pl_list_page
    \/ pl_page
    \/ pl_download
    \/ lw_playlist
    \/ lw_playlist_items
    \/ lw_playlist_item
    \/ lw_playlist_short
    \/ lw_channel
    \/ lw_channel_id
    \/ lw_search
    \/ lw_search_items
    \/ lw_recent_item
    \/ lw_recent_short
    \/ lw_download

SpecHarvest == InitHarvest /\ [][HarvestNext]_vars

\* -------------------------------- the chunk loop of _get_channel_videos
\* lists of 0..MaxIds video ids are looked up
MaxIds == 120

\* _get_channel_videos after the listing loop: temp_videos holds n ids
InitBatch ==
    /\ InitRotator
    /\ max_keys = 1
    /\ InitCalls
    /\ InitFunctions
    /\ workflow = "channel"
    /\ pc = "ch_batch"
    /\ OVERWRITE = FALSE
    /\ bad = 0
    /\ files = <<>>
    /\ stats = [downloaded |-> 0, skipped |-> 0, failed |-> 0]
    /\ \E n \in 0..MaxIds : temp_videos = [k \in 1..n |-> k]
    /\ videos = <<>>
    /\ page = 1
    /\ pos = 0
    /\ src = 1
    /\ lookups = <<>>
    /\ passed = {}
    /\ listed = Range(temp_videos)
    /\ processed = Range(temp_videos)
    /\ last = NoLast
    /\ exhausted = FALSE

BatchNext ==
    \/ ch_batch
    \/ ch_filter
    \/ request_execute
    \/ rotate_key
    \/ initialize_service

SpecBatch == InitBatch /\ [][BatchNext]_vars

\* ------------------------------------------- is_short called on one item
\* str(n) for a natural number n
RECURSIVE FormatInt(_)
FormatInt(n) == IF n < 10 THEN <<Digits[n + 1]>> ELSE FormatInt(n \div 10) \o <<Digits[(n % 10) + 1]>>

\* a component of a duration is absent, <<>>, or present with its value, <<n>>
Parts(values) == {<<>>} \cup {<<n>> : n \in values}

HourValues == {0, 1}
MinuteValues == {0, 1, 5, 10}
SecondValues == {0, 1, 45, 60, 61}

Part(p, unit) == IF p = <<>> THEN <<>> ELSE FormatInt(p[1]) \o <<unit>>

\* the ISO 8601 duration PT#H#M#S of the given components
Duration(h, m, s) == PT(Part(h, "H") \o Part(m, "M") \o Part(s, "S"))

WellFormedDurations ==
    {Duration(h, m, s) : h \in Parts(HourValues), m \in Parts(MinuteValues),
                         s \in Parts(SecondValues)}

\* duration strings that are no PT#H#M#S duration: "61", "", "PTx", "PT5Mx",
\* "5M" and "P1DT5S"
MalformedDurations ==
    {<<"6", "1">>, <<>>, <<"P", "T", "x">>, <<"P", "T", "5", "M", "x">>, <<"5", "M">>,
     <<"P", "1", "D", "T", "5", "S">>}

Thumbnails == {NoThumb, [height |-> 480, width |-> 640], [height |-> 640, width |-> 480],
               [height |-> 480, width |-> 0]}

Titles == {<<"a">>, <<"#", "S", "h", "o", "r", "t", "s">>, <<"a", "#", "s", "h", "o", "r", "t">>}

Descriptions == {<<>>, <<"#", "y", "o", "u", "t", "u", "b", "e", "s", "h", "o", "r", "t", "s">>}

Urls == {<<"x">>, <<"/", "s", "h", "o", "r", "t", "s", "/", "x">>}

\* the items is_short is called on
Items ==
    {[Clip EXCEPT !.duration = d, !.standard = th, !.title = t, !.description = ds, !.url = u] :
        d \in WellFormedDurations \cup MalformedDurations, th \in Thumbnails,
        t \in Titles, ds \in Descriptions, u \in Urls}

InitShort ==
    /\ InitRotator
    /\ max_keys = 1
    /\ InitCalls
    /\ InitRun
    /\ workflow = "is_short"
    /\ pc = "is_short"
    /\ OVERWRITE = FALSE
    /\ bad = 0
    /\ files = <<>>
    /\ video_data \in Items
    /\ title = <<>>
    /\ returned = FALSE

\* YouTubeShortsFilter.is_short(video_data)
call_is_short ==
    /\ pc = "is_short"
    /\ returned' = is_short(video_data)
    /\ pc' = "done"
    /\ UNCHANGED <<video_data, title>>
    /\ UNCHANGED <<workflow, OVERWRITE, bad, files, stats, temp_videos, videos, page, pos, src>>
    /\ UNCHANGED <<rvars, ret, rot_from, request, depth, result, ovars, gvars>>

ShortNext == call_is_short

SpecShort == InitShort /\ [][ShortNext]_vars


\* ------------------------------------------ sanitize called on one title
\* every title of at most MaxTitleLen characters of TitleChars is sanitized
MaxTitleLen == 4

TitleChars == {"a", ".", " ", "?", "&", "l", "t", ";"}

RECURSIVE Strings(_)
Strings(n) ==
    IF n = 0 THEN {<<>>}
    ELSE LET shorter == Strings(n - 1)
         IN  shorter \cup {Append(w, c) : w \in {x \in shorter : Len(x) = n - 1}, c \in TitleChars}

\* titles one character longer than the cap, with a, a dot or a space at the
\* position of the cap
LongTitles ==
    {[k \in 1..(MaxFilenameLen + 1) |-> IF k = MaxFilenameLen THEN c ELSE "a"] :
        c \in {"a", ".", " "}}

\* " My: Title? " and "&quot;a&gt;"
SampleTitles ==
    {<<" ", "M", "y", ":", " ", "T", "i", "t", "l", "e", "?", " ">>,
     <<"&", "q", "u", "o", "t", ";", "a", "&", "g", "t", ";">>}

InitSanitize ==
    /\ InitRotator
    /\ max_keys = 1
    /\ InitCalls
    /\ InitRun
    /\ workflow = "sanitize"
    /\ pc = "sanitize"
    /\ OVERWRITE = FALSE
    /\ bad = 0
    /\ files = <<>>
    /\ video_data = <<>>
    /\ title \in Strings(MaxTitleLen) \cup LongTitles \cup SampleTitles
    /\ returned = <<>>

\* FilenameSanitizer.sanitize(title)
call_sanitize ==
    /\ pc = "sanitize"
    /\ returned' = sanitize(title)
    /\ pc' = "done"
    /\ UNCHANGED <<video_data, title>>
    /\ UNCHANGED <<workflow, OVERWRITE, bad, files, stats, temp_videos, videos, page, pos, src>>
    /\ UNCHANGED <<rvars, ret, rot_from, request, depth, result, ovars, gvars>>

SanitizeNext == call_sanitize

SpecSanitize == InitSanitize /\ [][SanitizeNext]_vars

\* ------------------------------------------------------------------ claims
LastOutcome == outcomes[Len(outcomes)]

RotateInProgress == pc \in {"rotate", "init"}

\* C1 (as stated): in an execute_with_rotation call whose request keeps failing
\* with a quota error, the max_retries-th rotate_key call raises the exhaustion
\* error, the error reaches the caller and retry_count is 0 right after.
C1_ExhaustedOnRthRotation ==
    (rot_from = "execute" /\ rotations = max_retries /\ ~RotateInProgress)
        => (pc = ret /\ result = "ValueError" /\ retry_count = 0)

\* C2 (as stated): every invocation of the outbound call, retries included, is
\* made with the credential at current_key_index at the time of the invocation.
C2_CallUsesCurrentKey ==
    calls > 0 => lastCall.key = lastCall.cur

\* C3: an invocation that fails with an error not mentioning the quota ends
\* execute_with_rotation at once with that error: rotate_key is not called and
\* current_key_index, retry_count and the client are as they were before the
\* invocation; if it was the first invocation it is the only one.
C3_NonQuotaErrorPropagates ==
    (rot_from = "execute" /\ calls > 0 /\ LastOutcome \in {"HttpOther", "Exception"})
        => /\ pc = ret
           /\ result = LastOutcome
           /\ rotations = atCall.rot
           /\ current_key_index = atCall.idx
           /\ retry_count = atCall.rc
           /\ youtube = atCall.yt
           /\ (Len(outcomes) = 1 => calls = 1 /\ rotations = 0)

C3_Witness ==
    /\ rot_from = "execute"
    /\ pc = ret
    /\ outcomes = <<"HttpOther">>
    /\ result = "HttpOther"

\* C4: with max_retries = 3, a call that fails twice with a quota error and then
\* succeeds returns its result on the third invocation, after exactly two
\* rotate_key calls, and retry_count is 0 on return.
C4_TwoQuotaFailuresThenSuccess ==
    (rot_from = "execute" /\ outcomes = <<"HttpQuota", "HttpQuota", "ok">>)
        => /\ pc = ret
           /\ result = "ok"
           /\ calls = 3
           /\ rotations = 2
           /\ retry_count = 0

C4_Witness ==
    /\ max_retries = 3
    /\ rot_from = "execute"
    /\ outcomes = <<"HttpQuota", "HttpQuota", "ok">>
    /\ result = "ok"

\* C5: current_key_index always indexes a credential of the pool and
\* retry_count stays within 0..max_retries.
C5_IndexAndRetryInRange ==
    /\ current_key_index \in 1..max_keys
    /\ retry_count \in 0..max_retries

\* the index has wrapped around the pool and rotate_key is about to give up
C5_Witness ==
    /\ pc = "rotate"
    /\ retry_count = max_retries
    /\ max_keys = 2
    /\ current_key_index = 2
    /\ youtube = 1

\* C6 (as stated): after a chunk lookup failed with an error that is not about
\* the quota, no lookup is issued for a later chunk of the fetch.
C6_ChunkFailureAborts ==
    \A k \in 1..(Len(lookups) - 1) : lookups[k].result # "error"

NumChunks(n) == (n + batch_size - 1) \div batch_size

PositionOf(id, seq) == CHOOSE k \in 1..Len(seq) : seq[k] = id

\* the lookup of the chunk that holds position k of temp_videos
LookupOf(k) == lookups[((k - 1) \div batch_size) + 1]

\* C6 (amended): a failed chunk lookup does not propagate: the chunk's items
\* are dropped, every later chunk is still looked up, and the videos returned
\* are the surviving items of the chunks whose lookup succeeded.
C6_ChunkFailureSkipsChunk ==
    (workflow = "channel" /\ pc \in {"ch_download", "done"})
        => /\ Len(lookups) = NumChunks(Len(temp_videos))
           /\ \A k \in 1..Len(lookups) : lookups[k].first = (k - 1) * batch_size + 1
           /\ videos = SelectSeq(temp_videos,
                          LAMBDA id : /\ LookupOf(PositionOf(id, temp_videos)).result = "ok"
                                      /\ Video(id).available
                                      /\ ~is_short(Video(id)))

\* the first chunk's lookup failed, the second was issued and its survivor,
\* video 52, is downloaded
C6_Witness ==
    /\ workflow = "channel"
    /\ pc = "ch_download"
    /\ Len(lookups) = 2
    /\ lookups[1].result = "error"
    /\ lookups[2].result = "ok"
    /\ videos = <<52>>

\* C7 (as stated): once rotate_key has raised the exhaustion error out of
\* execute_with_rotation, the operation on this channel or playlist is over:
\* no further request is made for it.
C7_ExhaustionStopsOperation ==
    exhausted => pc \notin {"exec", "rotate", "init"}

\* C8 (as stated): whatever happens to an item, the items after it in the
\* same list are processed: when the run is over, the body of every loop has
\* been entered for every item of the list it iterates.
C8_EveryListedItemProcessed ==
    pc = "done" => listed \subseteq processed

\* C9: an item taken to the persistence step while its destination exists is
\* counted as skipped, neither as downloaded nor as failed, and the file keeps
\* its content; in yt-lastweek.py provided OVERWRITE is off.
C9_ExistingFileSkipped ==
    (last.id # 0 /\ last.existed /\ (workflow \in {"channel", "playlist"} \/ ~OVERWRITE))
        => /\ stats.skipped = last.stats.skipped + 1
           /\ stats.downloaded = last.stats.downloaded
           /\ stats.failed = last.stats.failed
           /\ last.dest \in DOMAIN files
           /\ files[last.dest] = last.content

\* video 2 ("a.") is taken to persistence after video 1 ("a") was saved to the
\* same file in this run
C9_Witness ==
    /\ workflow = "channel"
    /\ last.id = 2
    /\ last.existed
    /\ last.content = 1
    /\ stats.skipped = 1

\* C10 (as stated): in each of the three workflows no item that the short-form
\* classifier classifies as short-form is passed to the transcript download.
C10_NoShortDownloaded ==
    \A id \in passed : ~is_short(Video(id))

\* C10 (amended): in yt-channel.py no item that is_short classifies as
\* short-form, and in yt-lastweek.py no item that is_short_video classifies as
\* short-form, is passed to the transcript download; yt-playlist.py does not
\* filter.
C10_NoShortDownloadedWhereFiltered ==
    /\ workflow = "channel"
          => \A id \in passed : Video(id).available /\ ~is_short(Video(id))
    /\ workflow = "lastweek"
          => \A id \in passed : Video(id).available /\ ~ShortVideo(id)

\* the channel run is over: of its 52 uploads only the five that is_short
\* does not classify as short-form were passed on
C10_Witness ==
    /\ workflow = "channel"
    /\ pc = "done"
    /\ Len(temp_videos) > 4
    /\ passed = {1, 2, 4, 9, 52}

\* the duration in seconds of the components of a PT#H#M#S duration, a missing
\* component counting 0
SecondsOf(h, m, s) ==
    (IF h = <<>> THEN 0 ELSE h[1]) * 3600 + (IF m = <<>> THEN 0 ELSE m[1]) * 60
        + (IF s = <<>> THEN 0 ELSE s[1])

\* the three other rules: a vertical "standard" thumbnail, a shorts tag in the
\* lower-cased title or description, a shorts URL
OtherSignal(v) ==
    \/ (v.standard.width > 0 /\ v.standard.height > v.standard.width)
    \/ \E text \in {Lower(v.title), Lower(v.description)} :
           \/ Contains(text, <<"#", "s", "h", "o", "r", "t", "s">>)
           \/ Contains(text, <<"#", "s", "h", "o", "r", "t">>)
           \/ Contains(text, <<"#", "y", "o", "u", "t", "u", "b", "e", "s", "h", "o", "r", "t", "s">>)
    \/ Contains(v.url, <<"/", "s", "h", "o", "r", "t", "s", "/">>)

\* C11: for an item whose duration is a PT#H#M#S duration, is_short returns
\* true if and only if the duration is at most 60 seconds, or the standard
\* thumbnail is vertical, or the title or description carries a shorts tag,
\* or the URL holds /shorts/.
C11_ShortIffSomeRule ==
    (workflow = "is_short" /\ pc = "done")
        => \A h \in Parts(HourValues), m \in Parts(MinuteValues), s \in Parts(SecondValues) :
               video_data.duration = Duration(h, m, s)
                   => returned = (SecondsOf(h, m, s) <= 60 \/ OtherSignal(video_data))

\* is_short has answered true for PT1M (exactly 60 seconds) with no other signal
C11_Witness ==
    /\ workflow = "is_short"
    /\ pc = "done"
    /\ video_data.duration = <<"P", "T", "1", "M">>
    /\ ~OtherSignal(video_data)
    /\ returned = TRUE

\* C12 (as stated): is_short answers true for every item whose duration string
\* is no PT#H#M#S duration, whatever the other fields are.
C12_UnparseableIsShort ==
    (workflow = "is_short" /\ pc = "done" /\ video_data.duration \in MalformedDurations)
        => returned = TRUE

\* C13: the chunk loop looks the ids up in contiguous chunks in the original
\* order, every chunk holding at most 50 ids and every chunk but the last
\* exactly 50; when the loop is over each id was in exactly one chunk and
\* ceil(n/50) lookups were issued, none for n = 0.
C13_ContiguousChunksOfFifty ==
    LET n == Len(temp_videos)
        issued == Len(lookups)
    IN  workflow = "channel"
            => /\ \A k \in 1..issued :
                     LET from == 50 * (k - 1) + 1
                         to == IF 50 * k < n THEN 50 * k ELSE n
                     IN  /\ from <= n
                         /\ lookups[k].ids = SubSeq(temp_videos, from, to)
                         /\ lookups[k].size = to - from + 1
                         /\ lookups[k].size <= 50
                         /\ (k < issued => lookups[k].size = 50)
               /\ pc \in {"ch_download", "done"}
                     => /\ 50 * issued >= n
                        /\ 50 * issued < n + 50

\* 120 ids were looked up in three chunks of 50, 50 and 20 ids
C13_Witness ==
    /\ workflow = "channel"
    /\ pc \in {"ch_download", "done"}
    /\ Len(temp_videos) = 120
    /\ Len(lookups) = 3
    /\ lookups[1].size = 50 /\ lookups[2].size = 50 /\ lookups[3].size = 20
    /\ lookups[3].ids = [k \in 1..20 |-> 100 + k]

\* C14 (as stated): whatever the title, the sanitized name holds none of the
\* characters < > : " / \ | ? *, neither starts nor ends with a dot or a space
\* and is at most 255 characters long.
C14_SanitizedIsClean ==
    (workflow = "sanitize" /\ pc = "done")
        => /\ \A k \in 1..Len(returned) :
                 returned[k] \notin {"<", ">", ":", "\"", "/", "\\", "|", "?", "*"}
           /\ Len(returned) <= 255
           /\ returned # <<>>
                 => returned[1] \notin {".", " "} /\ returned[Len(returned)] \notin {".", " "}

\* C15: a rotate_key call never advances current_key_index more than
\* max_retries times; when every re-initialization has failed it raises the
\* exhaustion error after exactly max_retries advances, for every pool size,
\* and leaves retry_count = 0.
C15_ExhaustedAfterMaxRetries ==
    /\ advances <= max_retries
    /\ (pc = "rotate" /\ advances = max_retries) => retry_count = max_retries
    /\ result = "ValueError" => (advances = max_retries /\ retry_count = 0)

\* on a pool of 5 keys the client's rotate_key call raised the exhaustion
\* error after keys 2, 3 and 4 failed to initialize; key 5 was never tried
C15_Witness ==
    /\ pc = "idle"
    /\ rot_from = "client"
    /\ result = "ValueError"
    /\ max_keys = 5
    /\ current_key_index = 4
    /\ advances = 3
    /\ retry_count = 0

\* index reached from i by k advances in cyclic order
RECURSIVE Advance(_, _)
Advance(i, k) == IF k = 0 THEN i ELSE NextKeyIndex(Advance(i, k - 1), max_keys)

\* C16: each advance of rotate_key moves current_key_index to the next index
\* in cyclic order (max_keys is followed by 1), the initialization that
\* follows leaves it there, and a successful one builds the client with it;
\* max_keys advances visit every index once and end on the starting index.
C16_CyclicAdvance ==
    /\ [][/\ (pc = "rotate" /\ pc' = "init")
                => current_key_index' = IF current_key_index = max_keys
                                          THEN 1 ELSE current_key_index + 1
          /\ pc = "init"
                => /\ current_key_index' = current_key_index
                   /\ pc' # "rotate" => youtube' = current_key_index]_vars
    /\ [](\A i \in 1..max_keys :
             /\ Advance(i, max_keys) = i
             /\ {Advance(i, k) : k \in 1..max_keys} = 1..max_keys)

\* on a pool of 3 keys a rotate_key call of the client went from key 3 to
\* key 1 with one advance and built the client with key 1
C16_Witness ==
    /\ pc = "idle"
    /\ rot_from = "client"
    /\ result = "ok"
    /\ max_keys = 3
    /\ advances = 1
    /\ current_key_index = 1
    /\ youtube = 1

\* C17 (as stated): for an item whose destination file exists (OVERWRITE
\* being off in yt-lastweek.py) no transcript is requested from the remote
\* service.
C17_NoFetchForExistingFile ==
    (last.id # 0 /\ last.existed /\ (workflow \in {"channel", "playlist"} \/ ~OVERWRITE))
        => ~last.fetched

\* C18: every execute_with_rotation call ends, by returning or by raising an
\* error; a call whose invocations all fail with a quota error ends with an
\* error.
C18_ExecuteTerminates ==
    /\ (pc = "exec") ~> (pc = "idle" /\ result # "none")
    /\ [](calls <= RecursionLimit)
    /\ []((pc = "idle" /\ rot_from = "execute" /\ calls > 0
              /\ \A k \in 1..Len(outcomes) : outcomes[k] = "HttpQuota")
             => result \in {"RecursionError", "ValueError"})

\* every invocation failed with a quota error, every re-initialization
\* succeeded, and the call ended with the interpreter's RecursionError
C18_Witness ==
    /\ pc = "idle"
    /\ rot_from = "execute"
    /\ result = "RecursionError"
    /\ calls = RecursionLimit
    /\ rotations = RecursionLimit
    /\ \A k \in 1..Len(outcomes) : outcomes[k] = "HttpQuota"

\* C19: retry_count is 0 whenever no rotate_key call is in progress.
C19_RetryCountZeroOutsideRotation ==
    pc \notin {"rotate", "init"} => retry_count = 0

\* execute_with_rotation is about to retry after its second quota-triggered
\* rotation, the first re-initialization of which had failed
C19_Witness ==
    /\ pc = "exec"
    /\ rotations = 2
    /\ advances = 2
    /\ retry_count = 0

\* C20 (as stated): whenever no rotate_key call is in progress, the client
\* behind the service property was built with the key at current_key_index.
C20_ServiceMatchesCurrentKey ==
    pc \notin {"rotate", "init"} => youtube = current_key_index

====
